---- MODULE Spec2Model ----
(***************************************************************************)
(* Model of crates/burn-import/script.py: a straight-line Python script    *)
(* that loads an ONNX model from a fixed path, applies                     *)
(* onnx.shape_inference.infer_shapes to it and saves the returned model to *)
(* a second fixed path.                                                    *)
(*                                                                         *)
(* The three library calls are external to the script.  Each one either    *)
(* returns or raises; an uncaught exception ends the script, so no later   *)
(* statement runs.  What infer_shapes returns is not decided by the script *)
(* and is therefore drawn from the set of all models.                      *)
(***************************************************************************)
EXTENDS Integers, Sequences, FiniteSets

\* Number of distinct model protos considered.
NumModels == 3

Models == 1..NumModels

\* script.py line 6: the path handed to onnx.load
InPath == "onnx-tests/tests/conv1d/conv1d.onnx"

\* script.py line 12: the path handed to onnx.save
OutPath == "conv1d_inferred.onnx"

Paths == {InPath, OutPath}

\* What a path of the file system can hold: nothing, bytes that do not
\* decode to a model, or a serialized model.
AbsentFile == [kind |-> "absent", proto |-> 1]
MalformedFile == [kind |-> "malformed", proto |-> 1]
ModelFile(m) == [kind |-> "model", proto |-> m]
FileContents == {AbsentFile, MalformedFile} \cup {ModelFile(m) : m \in Models}

\* A Python name is either unbound (<<>>) or bound to a model (<<m>>).
Unbound == <<>>
Bound(m) == <<m>>

\* The order in which the statements of the script appear.
Statements == <<"load", "infer", "save">>

VARIABLES
    pc,              \* the statement the script is about to execute
    model,           \* the module-level name `model`
    inferred_model,  \* the module-level name `inferred_model`
    files,           \* the file system, path -> content
    calls            \* history: the library calls made so far

vars == <<pc, model, inferred_model, files, calls>>

\* One entry of the call history.  arg and ret are sequences of models:
\* ret is <<>> when the call raised or returned None.
Call(op, path, arg, ok, ret) ==
    [op |-> op, path |-> path, arg |-> arg, ok |-> ok, ret |-> ret]

Init ==
    /\ pc = "load"
    /\ model = Unbound
    /\ inferred_model = Unbound
    /\ files \in [Paths -> FileContents]
    /\ calls = <<>>

\* line 6: model = onnx.load(<InPath>), the call returns
Load ==
    /\ pc = "load"
    /\ files[InPath].kind = "model"
    /\ model' = Bound(files[InPath].proto)
    /\ calls' = Append(calls, Call("load", InPath, <<>>, TRUE, model'))
    /\ pc' = "infer"
    /\ UNCHANGED <<inferred_model, files>>

\* line 6: onnx.load raises (missing file, undecodable bytes, I/O error)
LoadRaise ==
    /\ pc = "load"
    /\ calls' = Append(calls, Call("load", InPath, <<>>, FALSE, <<>>))
    /\ pc' = "raised"
    /\ UNCHANGED <<model, inferred_model, files>>

\* line 9: the argument expression of infer_shapes
InferArg == model

\* line 9: inferred_model = shape_inference.infer_shapes(model), returns
InferShapes ==
    /\ pc = "infer"
    /\ \E r \in Models :
          /\ inferred_model' = Bound(r)
          /\ calls' = Append(calls, Call("infer", "", InferArg, TRUE, Bound(r)))
    /\ pc' = "save"
    /\ UNCHANGED <<model, files>>

\* line 9: infer_shapes raises
InferRaise ==
    /\ pc = "infer"
    /\ calls' = Append(calls, Call("infer", "", InferArg, FALSE, <<>>))
    /\ pc' = "raised"
    /\ UNCHANGED <<model, inferred_model, files>>

\* The mutated first argument of onnx.save: the loaded model.
SaveArgLoaded == model

\* line 12: the first argument expression of onnx.save
SaveArg == inferred_model

\* line 12: onnx.save(inferred_model, <OutPath>), the call returns
Save ==
    /\ pc = "save"
    /\ Len(SaveArg) = 1
    /\ files' = [files EXCEPT ![OutPath] = ModelFile(SaveArg[1])]
    /\ calls' = Append(calls, Call("save", OutPath, SaveArg, TRUE, <<>>))
    /\ pc' = "done"
    /\ UNCHANGED <<model, inferred_model>>

\* line 12: onnx.save raises; the target is left as it was or is left with
\* bytes that do not decode
SaveRaise ==
    /\ pc = "save"
    /\ \E c \in {files[OutPath], MalformedFile} :
          files' = [files EXCEPT ![OutPath] = c]
    /\ calls' = Append(calls, Call("save", OutPath, SaveArg, FALSE, <<>>))
    /\ pc' = "raised"
    /\ UNCHANGED <<model, inferred_model>>

Next ==
    \/ Load
    \/ LoadRaise
    \/ InferShapes
    \/ InferRaise
    \/ Save
    \/ SaveRaise

Spec == Init /\ [][Next]_vars

\* C1: the library calls of a run are a prefix of load, infer_shapes, save,
\* each made at most once; a call is made only after the previous one has
\* returned; infer_shapes receives the model that load returned; save
\* receives the model that infer_shapes returned; and when the script has
\* finished, the output file holds the model that infer_shapes returned.
C1_LoadInferSave ==
    /\ Len(calls) <= Len(Statements)
    /\ \A i \in 1..Len(calls) : calls[i].op = Statements[i]
    /\ \A i \in 1..(Len(calls) - 1) : calls[i].ok
    /\ Len(calls) >= 2 => (calls[1].ret # <<>> /\ calls[2].arg = calls[1].ret)
    /\ Len(calls) >= 3 => (calls[2].ret # <<>> /\ calls[3].arg = calls[2].ret)
    /\ pc = "done" => /\ Len(calls) = 3
                      /\ calls[3].ok
                      /\ files[OutPath] = ModelFile(calls[2].ret[1])

\* C1 witness: a finished run in which infer_shapes returned a model other
\* than the one loaded, and the output file holds the returned one.
C1_Witness ==
    /\ pc = "done"
    /\ Len(calls) = 3
    /\ calls[2].ret # calls[1].ret
    /\ files[OutPath] = ModelFile(calls[2].ret[1])
    /\ files[OutPath] # ModelFile(calls[1].ret[1])

====
